---------------------------- MODULE Spec2Model ----------------------------
(***************************************************************************)
(* Transcript acquisition engine of youtube-spyglass: the route handler    *)
(* GET /api/transcript (src/src/store/app-store.ts, lines 335-874), its    *)
(* text normaliser, wire-format decoders, fallback selector, retry         *)
(* envelope and response assembler.                                        *)
(*                                                                         *)
(* Text is modelled as TLA+ strings, read character by character, so that  *)
(* the normaliser and the id validation are computed as the code computes  *)
(* them.  A caption segment is modelled by its text; start and duration    *)
(* are copied through by the code and take no part in any decision.        *)
(***************************************************************************)
EXTENDS Integers, Sequences, FiniteSets, TLC

(***************************************************************************)
(* Bounds of the model.                                                    *)
(***************************************************************************)
\* Longest caption track list the directory resolver returns.
MaxTracks == 2
\* Most events / text elements / library items in one upstream payload.
MaxItems == 2
\* Most fragments concatenated into one normaliser input.
MaxFrags == 3
\* Most videos handed to one call of fetchTranscriptsForVideos.
MaxVideos == 3
\* Most search handler runs started in one session of the search panel.
MaxSearches == 3
\* Largest `retries` argument handed to withRetry.
MaxRetries == 5

(***************************************************************************)
(* String helpers (JavaScript String methods used by the code).            *)
(***************************************************************************)
Ch(s, i) == SubSeq(s, i, i)

Drop(s, n) == SubSeq(s, n + 1, Len(s))

\* String.prototype.startsWith
StartsWith(s, p) == Len(p) <= Len(s) /\ SubSeq(s, 1, Len(p)) = p

\* String.prototype.includes
Includes(s, sub) ==
    \E i \in 1..(Len(s) - Len(sub) + 1) : SubSeq(s, i, i + Len(sub) - 1) = sub

\* String.prototype.replace(/pat/g, rep) for a literal pattern: leftmost,
\* non-overlapping matches in one scan; the replacement is not rescanned.
RECURSIVE ReplaceAll(_, _, _)
ReplaceAll(s, pat, rep) ==
    IF Len(s) < Len(pat) THEN s
    ELSE IF StartsWith(s, pat)
         THEN rep \o ReplaceAll(Drop(s, Len(pat)), pat, rep)
         ELSE Ch(s, 1) \o ReplaceAll(Drop(s, 1), pat, rep)

\* Characters matched by \s and removed by trim() that occur in the model.
WhiteSpace == {" ", "\t", "\n"}

\* Position of the first ">" in s, 0 when there is none.
RECURSIVE FirstGt(_, _)
FirstGt(s, i) ==
    IF i > Len(s) THEN 0
    ELSE IF Ch(s, i) = ">" THEN i ELSE FirstGt(s, i + 1)

\* .replace(/<[^>]*>/g, "")
RECURSIVE StripTags(_)
StripTags(s) ==
    IF s = "" THEN ""
    ELSE IF Ch(s, 1) = "<" /\ FirstGt(s, 2) > 0
         THEN StripTags(Drop(s, FirstGt(s, 2)))
         ELSE Ch(s, 1) \o StripTags(Drop(s, 1))

RECURSIVE TrimStart(_)
TrimStart(s) ==
    IF s # "" /\ Ch(s, 1) \in WhiteSpace THEN TrimStart(Drop(s, 1)) ELSE s

RECURSIVE TrimEnd(_)
TrimEnd(s) ==
    IF s # "" /\ Ch(s, Len(s)) \in WhiteSpace
    THEN TrimEnd(SubSeq(s, 1, Len(s) - 1)) ELSE s

\* String.prototype.trim
Trim(s) == TrimEnd(TrimStart(s))

\* .replace(/\s+/g, " ")
RECURSIVE CollapseWhitespace(_)
CollapseWhitespace(s) ==
    IF s = "" THEN ""
    ELSE IF Ch(s, 1) \in WhiteSpace
         THEN " " \o CollapseWhitespace(TrimStart(s))
         ELSE Ch(s, 1) \o CollapseWhitespace(Drop(s, 1))

\* The six entity replacements of cleanTranscriptText, in source order.
DecodeEntities(text) ==
    LET a1 == ReplaceAll(text, "&amp;", "&")
        a2 == ReplaceAll(a1, "&lt;", "<")
        a3 == ReplaceAll(a2, "&gt;", ">")
        a4 == ReplaceAll(a3, "&quot;", "\"")
        a5 == ReplaceAll(a4, "&#39;", "'")
    IN  ReplaceAll(a5, "&nbsp;", " ")

\* cleanTranscriptText: decode entities, strip tags, collapse whitespace, trim.
cleanTranscriptText(text) ==
    Trim(CollapseWhitespace(StripTags(DecodeEntities(text))))

(***************************************************************************)
(* Video id validation.                                                    *)
(***************************************************************************)
IdAlphabet == "abcdefghijklmnopqrstuvwxyzABCDEFGHIJKLMNOPQRSTUVWXYZ0123456789_-"

IdChars == {Ch(IdAlphabet, i) : i \in 1..Len(IdAlphabet)}

\* Variant: the pattern without its {11} length (/^[a-zA-Z0-9_-]+$/).
isValidVideoId_AnyLength(videoId) ==
    Len(videoId) > 0 /\ \A i \in 1..Len(videoId) : Ch(videoId, i) \in IdChars

\* /^[a-zA-Z0-9_-]{11}$/.test(videoId)
isValidVideoId(videoId) ==
    Len(videoId) = 11 /\ \A i \in 1..11 : Ch(videoId, i) \in IdChars


(***************************************************************************)
(* Program constants.                                                      *)
(***************************************************************************)
\* Priority languages for fallback.
LANGUAGE_PRIORITY ==
    << "en", "en-US", "en-GB", "en-AU", "en-CA", "en-IN",
       "hi", "es", "es-ES", "es-MX", "es-419",
       "pt", "pt-BR", "pt-PT",
       "fr", "fr-FR", "fr-CA",
       "de", "de-DE",
       "ar", "ja", "ko", "zh", "zh-CN", "zh-TW",
       "ru", "it", "nl", "pl", "tr", "id", "th", "vi" >>

\* pRetry options of the primary path: retries after the first call.
PrimaryRetries == 3
\* pRetry options of the secondary (library) path.
SecondaryRetries == 2
\* createResponse's default cacheSeconds.
DefaultCacheSeconds == 3600
\* fetchTranscriptsForVideos' default concurrency.
DefaultConcurrency == 5

(***************************************************************************)
(* Wire-format decoders.  An upstream payload is modelled by what the two  *)
(* decoders read from it: the result of JSON.parse (absent when it throws) *)
(* as a list of events, an event being its list of utf8 sub-segments or    *)
(* lacking segs, and the inner texts of the <text> elements the timed-text *)
(* regular expression matches in the same bytes.                           *)
(***************************************************************************)
RECURSIVE JoinWith(_, _)
\* Array.prototype.join(sep) of a list of strings
JoinWith(texts, sep) ==
    IF texts = <<>> THEN ""
    ELSE IF Len(texts) = 1 THEN texts[1]
    ELSE texts[1] \o sep \o JoinWith(Tail(texts), sep)

RECURSIVE parseTimedTextXML(_)
\* one segment per matched <text> element whose cleaned text is non-empty
parseTimedTextXML(xml) ==
    IF xml = <<>> THEN <<>>
    ELSE LET text == cleanTranscriptText(xml[1])
         IN  (IF text # "" THEN <<[text |-> text]>> ELSE <<>>)
             \o parseTimedTextXML(Tail(xml))

RECURSIVE parseJSON3Format(_)
\* one segment per event with segs whose joined text has a non-blank trim
parseJSON3Format(events) ==
    IF events = <<>> THEN <<>>
    ELSE LET event == events[1]
             text  == JoinWith(event.segs, "")
         IN  (IF event.hasSegs /\ Trim(text) # ""
              THEN <<[text |-> cleanTranscriptText(text)]>>
              ELSE <<>>)
             \o parseJSON3Format(Tail(events))

\* Result of an awaited call: it threw `error`, or it returned `value`.
Threw(msg) == [threw |-> TRUE, error |-> msg, value |-> <<>>]
Returned(v) == [threw |-> FALSE, error |-> "", value |-> v]

\* Variant: the json3 decoder's result is returned as it is, empty or not,
\* and a payload that is not JSON is reported as an empty track.
fetchTranscriptFromUrl_NoLegacy(reply) ==
    IF reply.failed THEN Threw(reply.error)
    ELSE IF ~reply.ok THEN Threw("Failed to fetch transcript: 404")
    ELSE IF reply.json # <<>> THEN Returned(parseJSON3Format(reply.json[1]))
    ELSE Returned(<<>>)

\* fetchTranscriptFromUrl with preferJSON = true (every caller's value), given
\* what the fetch of the track locator produced.
fetchTranscriptFromUrl(reply) ==
    IF reply.failed THEN Threw(reply.error)
    ELSE IF ~reply.ok THEN Threw("Failed to fetch transcript: 404")
    ELSE LET segments == IF reply.json # <<>>
                         THEN parseJSON3Format(reply.json[1])
                         ELSE <<>>
         IN  IF Len(segments) > 0 THEN Returned(segments)
             ELSE Returned(parseTimedTextXML(reply.xml))

(***************************************************************************)
(* Caption track directory resolver.                                       *)
(***************************************************************************)
\* extractCaptionTracks: the track list, or a thrown classified error.
extractCaptionTracks(playerResponse) ==
    IF ~playerResponse.hasCaptionTracks
    THEN IF playerResponse.status \in {"ERROR", "UNPLAYABLE"}
         THEN Threw(IF playerResponse.reason # "" THEN playerResponse.reason
                    ELSE "Video is not available")
         ELSE IF playerResponse.status = "LOGIN_REQUIRED"
         THEN Threw("Video requires login - possibly age-restricted")
         ELSE Threw("No caption tracks available")
    ELSE Returned(playerResponse.captionTracks)

\* getCaptionTracks, given what the fetch of the watch page produced.
getCaptionTracks(page) ==
    IF page.failed THEN Threw(page.error)
    ELSE IF ~page.ok THEN Threw("Failed to fetch video page: 404")
    ELSE IF ~page.hasPlayerResponse
    THEN Threw("Could not find player response in video page")
    ELSE IF ~page.parses THEN Threw("Unexpected end of JSON input")
    ELSE extractCaptionTracks(page.playerResponse)

(***************************************************************************)
(* Fallback selector.  A position is a strategy block of                   *)
(* fetchTranscriptWithFallbacks in source order (1 preferred manual,       *)
(* 2 preferred auto, 3 manual by priority, 4 auto by priority, 5 any       *)
(* manual, 6 any auto, 7 first track) and, in the two loops, the index in  *)
(* LANGUAGE_PRIORITY.                                                      *)
(***************************************************************************)
Pos(s, i) == [s |-> s, i |-> i]

\* Variant: the lookup without its languageCode.startsWith(lang) test.
FindTrack_AnyLanguage(captionTracks, lang, auto) ==
    LET hits == {k \in 1..Len(captionTracks) :
                    (captionTracks[k].kind = "asr") = auto}
    IN  IF hits = {} THEN 0 ELSE CHOOSE k \in hits : \A j \in hits : k <= j

\* Array.prototype.find over the track list: index of the first match, 0 if none.
FindTrack(captionTracks, lang, auto) ==
    LET hits == {k \in 1..Len(captionTracks) :
                    /\ StartsWith(captionTracks[k].languageCode, lang)
                    /\ (captionTracks[k].kind = "asr") = auto}
    IN  IF hits = {} THEN 0 ELSE CHOOSE k \in hits : \A j \in hits : k <= j

\* Variant: the lang parameter is not passed on.
PreferredLang_Dropped(req) == <<>>

\* lang || undefined: the preferred language as an optional value
PreferredLang(req) ==
    IF req.lang = <<>> \/ req.lang[1] = "" THEN <<>> ELSE req.lang

\* The track the strategy block at `pos` looks up (0: none, block skipped).
StrategyTrack(pos, captionTracks, preferredLang) ==
    CASE pos.s = 1 -> IF preferredLang = <<>> THEN 0
                      ELSE FindTrack(captionTracks, preferredLang[1], FALSE)
      [] pos.s = 2 -> IF preferredLang = <<>> THEN 0
                      ELSE FindTrack(captionTracks, preferredLang[1], TRUE)
      [] pos.s = 3 -> FindTrack(captionTracks, LANGUAGE_PRIORITY[pos.i], FALSE)
      [] pos.s = 4 -> FindTrack(captionTracks, LANGUAGE_PRIORITY[pos.i], TRUE)
      [] pos.s = 5 -> FindTrack(captionTracks, "", FALSE)
      [] pos.s = 6 -> FindTrack(captionTracks, "", TRUE)
      [] pos.s = 7 -> 1

\* Variant: the two priority loops in the other order (auto before manual).
NextStrategy_AutoFirst(pos) ==
    CASE pos.s = 1 -> Pos(2, 0)
      [] pos.s = 2 -> Pos(4, 1)
      [] pos.s = 4 -> IF pos.i < Len(LANGUAGE_PRIORITY) THEN Pos(4, pos.i + 1)
                      ELSE Pos(3, 1)
      [] pos.s = 3 -> IF pos.i < Len(LANGUAGE_PRIORITY) THEN Pos(3, pos.i + 1)
                      ELSE Pos(5, 0)
      [] pos.s = 5 -> Pos(6, 0)
      [] pos.s = 6 -> Pos(7, 0)

\* The block that follows `pos` in the source.
NextStrategy(pos) ==
    CASE pos.s = 1 -> Pos(2, 0)
      [] pos.s = 2 -> Pos(3, 1)
      [] pos.s = 3 -> IF pos.i < Len(LANGUAGE_PRIORITY) THEN Pos(3, pos.i + 1)
                      ELSE Pos(4, 1)
      [] pos.s = 4 -> IF pos.i < Len(LANGUAGE_PRIORITY) THEN Pos(4, pos.i + 1)
                      ELSE Pos(5, 0)
      [] pos.s = 5 -> Pos(6, 0)
      [] pos.s = 6 -> Pos(7, 0)

\* Control runs from `pos` through the blocks whose lookup finds no track and
\* stops at the first block that fetches one (block 7 always fetches).
RECURSIVE SkipToFetch(_, _, _)
SkipToFetch(pos, captionTracks, preferredLang) ==
    IF pos.s = 7 \/ StrategyTrack(pos, captionTracks, preferredLang) # 0 THEN pos
    ELSE SkipToFetch(NextStrategy(pos), captionTracks, preferredLang)

\* Variant: a block never returns its segments, control always moves on.
Returns_Never(result) == FALSE

\* `if (segments.length > 0) return {...}`: the block returns the fetched
\* segments to the caller of fetchTranscriptWithFallbacks.
Returns(result) == ~result.threw /\ Len(result.value) > 0

\* Variant: the any-manual and any-auto blocks without their try/catch.
InTryBlock_PriorityOnly(pos) == pos.s \in 1..4

\* The fetch of every block but the last is wrapped in try/catch.
InTryBlock(pos) == pos.s \in 1..6

\* The method tag a block reports on success.
MethodTag(pos, track, preferredLang) ==
    CASE pos.s = 1 -> "manual_" \o preferredLang[1]
      [] pos.s = 2 -> "auto_" \o preferredLang[1]
      [] pos.s = 3 -> "manual_priority_" \o LANGUAGE_PRIORITY[pos.i]
      [] pos.s = 4 -> "auto_priority_" \o LANGUAGE_PRIORITY[pos.i]
      [] pos.s = 5 -> "any_manual_" \o track.languageCode
      [] pos.s = 6 -> "any_auto_" \o track.languageCode
      [] pos.s = 7 -> "last_resort_" \o track.languageCode

(***************************************************************************)
(* Response assembler.                                                     *)
(***************************************************************************)
UpperCase == "ABCDEFGHIJKLMNOPQRSTUVWXYZ"
LowerCase == "abcdefghijklmnopqrstuvwxyz"

RECURSIVE toLowerCase(_)
\* String.prototype.toLowerCase
toLowerCase(s) ==
    IF s = "" THEN ""
    ELSE LET c == Ch(s, 1)
             up == {i \in 1..Len(UpperCase) : Ch(UpperCase, i) = c}
         IN  (IF up = {} THEN c ELSE Ch(LowerCase, CHOOSE i \in up : TRUE))
             \o toLowerCase(Drop(s, 1))

\* getTranscriptErrorMessage (lines 734-758) of an Error with message `msg`
getTranscriptErrorMessage(msg) ==
    LET message == toLowerCase(msg)
    IN  IF Includes(message, "disabled") \/ Includes(message, "no caption tracks")
        THEN "[Transcript Disabled]"
        ELSE IF Includes(message, "private") \/ Includes(message, "login")
        THEN "[Video Private/Restricted]"
        ELSE IF \/ Includes(message, "not found")
                \/ Includes(message, "404")
                \/ Includes(message, "not available")
        THEN "[Video Unavailable]"
        ELSE IF \/ Includes(message, "network")
                \/ Includes(message, "fetch")
                \/ Includes(message, "timeout")
        THEN "[Network Error]"
        ELSE IF Includes(message, "age-restricted")
        THEN "[Age Restricted]"
        ELSE "[Error: " \o SubSeq(msg, 1, IF Len(msg) < 50 THEN Len(msg) ELSE 50)
             \o "]"

\* segments.map((s) => s.text).join(" ").trim()
RawOf(segments) ==
    Trim(JoinWith([k \in 1..Len(segments) |-> segments[k].text], " "))

\* Variant: the cache test without `data.segments.length > 0`.
createResponse_CacheOnSuccess(data, status) ==
    [ body   |-> data,
      status |-> status,
      cacheControl |->
          IF data.success
          THEN "public, s-maxage=" \o ToString(DefaultCacheSeconds)
               \o ", stale-while-revalidate=" \o ToString(DefaultCacheSeconds * 2)
          ELSE "no-store" ]

\* createResponse: the JSON body, the status and the Cache-Control header.
createResponse(data, status) ==
    [ body   |-> data,
      status |-> status,
      cacheControl |->
          IF data.success /\ Len(data.segments) > 0
          THEN "public, s-maxage=" \o ToString(DefaultCacheSeconds)
               \o ", stale-while-revalidate=" \o ToString(DefaultCacheSeconds * 2)
          ELSE "no-store" ]

\* The four responses GET builds.
ValidationFailure(message) ==
    createResponse([success |-> FALSE, language |-> "", segments |-> <<>>,
                    raw |-> "", error |-> message], 400)

PrimarySuccess(language, segments, method) ==
    createResponse([success |-> TRUE, language |-> language,
                    segments |-> segments, raw |-> RawOf(segments),
                    method |-> method], 200)

FallbackSuccess(segments) ==
    createResponse([success |-> TRUE, language |-> "en",
                    segments |-> segments, raw |-> RawOf(segments),
                    method |-> "youtube-transcript-fallback"], 200)

\* Variant: total failure reported with success: false.
TotalFailure_Unsuccessful(errorMessage) ==
    createResponse([success |-> FALSE, language |-> "", segments |-> <<>>,
                    raw |-> errorMessage, error |-> errorMessage], 200)

\* Variant: total failure answered without the error field.
TotalFailure_NoError(errorMessage) ==
    createResponse([success |-> TRUE, language |-> "", segments |-> <<>>,
                    raw |-> errorMessage], 200)

TotalFailure(errorMessage) ==
    createResponse([success |-> TRUE, language |-> "", segments |-> <<>>,
                    raw |-> errorMessage, error |-> errorMessage], 200)

(***************************************************************************)
(* The environment: what a request carries and what the upstream may       *)
(* answer.  The sets are small and concrete; every answer is possible at   *)
(* every call.                                                             *)
(***************************************************************************)
\* Sequences over S of length lo..hi
SeqsOf(S, lo, hi) == UNION {[1..n -> S] : n \in lo..hi}

\* searchParams.get(...) is null (<<>>) or a string (<<s>>)
Requests ==
    [ videoId : {<<>>, <<"">>, <<"!!!invalid">>, <<"dQw4w9WgXc">>,
                 <<"dQw4w9WgXcQQ">>, <<"dQw4w9WgXcQ">>},
      lang    : {<<>>, <<"es">>, <<"en">>} ]

\* Caption tracks the player response may declare ("asr": auto-generated).
TrackPool ==
    { [languageCode |-> "en-US", kind |-> "standard"],
      [languageCode |-> "es",    kind |-> "asr"],
      [languageCode |-> "fr",    kind |-> "standard"],
      [languageCode |-> "sv",    kind |-> "standard"],
      [languageCode |-> "sv",    kind |-> "asr"] }

PlayerResponses ==
    {[hasCaptionTracks |-> FALSE, captionTracks |-> <<>>, status |-> st,
      reason |-> r] :
        st \in {"OK", "LOGIN_REQUIRED"}, r \in {""}}
    \cup
    {[hasCaptionTracks |-> FALSE, captionTracks |-> <<>>, status |-> st,
      reason |-> r] :
        st \in {"ERROR", "UNPLAYABLE"},
        r \in {"", "Video unavailable", "This video is private",
               "Playback on other websites has been disabled by the video owner"}}
    \cup
    {[hasCaptionTracks |-> TRUE, captionTracks |-> ts, status |-> st,
      reason |-> ""] :
        ts \in SeqsOf(TrackPool, 0, MaxTracks), st \in {"OK", "LOGIN_REQUIRED"}}

NoPlayerResponse ==
    [hasCaptionTracks |-> FALSE, captionTracks |-> <<>>, status |-> "",
     reason |-> ""]

\* What the fetch of the watch page produces.
Pages ==
    { [failed |-> TRUE, error |-> "fetch failed", ok |-> FALSE,
       hasPlayerResponse |-> FALSE, parses |-> FALSE,
       playerResponse |-> NoPlayerResponse],
      [failed |-> FALSE, error |-> "", ok |-> FALSE,
       hasPlayerResponse |-> FALSE, parses |-> FALSE,
       playerResponse |-> NoPlayerResponse],
      [failed |-> FALSE, error |-> "", ok |-> TRUE,
       hasPlayerResponse |-> FALSE, parses |-> FALSE,
       playerResponse |-> NoPlayerResponse],
      [failed |-> FALSE, error |-> "", ok |-> TRUE,
       hasPlayerResponse |-> TRUE, parses |-> FALSE,
       playerResponse |-> NoPlayerResponse] }
    \cup
    {[failed |-> FALSE, error |-> "", ok |-> TRUE, hasPlayerResponse |-> TRUE,
      parses |-> TRUE, playerResponse |-> p] : p \in PlayerResponses}

\* Events of a json3 payload.
EventPool ==
    { [hasSegs |-> TRUE,  segs |-> <<"Hello ", "world">>],
      [hasSegs |-> TRUE,  segs |-> <<"<i>", "</i>">>],
      [hasSegs |-> TRUE,  segs |-> <<" \n">>],
      [hasSegs |-> FALSE, segs |-> <<>>] }

\* Inner texts of <text> elements of a timed-text payload.
XmlTexts == {"a &amp; b", "&lt;b&gt;"}

\* What the fetch of a caption track locator produces.
TrackReplies ==
    { [failed |-> TRUE, error |-> "fetch failed", ok |-> FALSE,
       json |-> <<>>, xml |-> <<>>],
      [failed |-> FALSE, error |-> "", ok |-> FALSE, json |-> <<>>, xml |-> <<>>] }
    \cup
    {[failed |-> FALSE, error |-> "", ok |-> TRUE, json |-> <<ev>>, xml |-> x] :
        ev \in SeqsOf(EventPool, 0, MaxItems), x \in {<<>>, <<"a &amp; b">>}}
    \cup
    {[failed |-> FALSE, error |-> "", ok |-> TRUE, json |-> <<>>, xml |-> x] :
        x \in SeqsOf(XmlTexts, 0, MaxItems)}

\* What YoutubeTranscript.fetchTranscript produces: it throws, or returns
\* items (text is "" where the item has none: item.text || "").
\* `language` is the language of the transcript the library downloaded; the
\* items it hands to the caller do not carry it.
LibraryReplies ==
    { [threw |-> TRUE, error |-> "Transcript is disabled on this video",
       language |-> "", items |-> <<>>] }
    \cup
    {[threw |-> FALSE, error |-> "", language |-> l, items |-> it] :
        l \in {"en", "es"},
        it \in SeqsOf({[text |-> "Hello &amp; world"], [text |-> "<i></i>"],
                       [text |-> ""]}, 0, MaxItems)}

\* Every outcome of the three awaited upstream calls over these answers.
Directories == {getCaptionTracks(page) : page \in Pages}

TrackResults == {fetchTranscriptFromUrl(reply) : reply \in TrackReplies}

\* Pieces the normaliser's inputs are built from.
Fragments ==
    {"&", "amp;", "&amp;", "lt;", "&l", "t;", "<", "b>", " ", "\t", "x"}

RECURSIVE Concat(_)
Concat(ss) == IF ss = <<>> THEN "" ELSE ss[1] \o Concat(Tail(ss))

NormaliserInputs == {Concat(fs) : fs \in SeqsOf(Fragments, 0, MaxFrags)}

(***************************************************************************)
(* The client of the endpoint (src/src/lib/csv-export.ts, lines 1160-1222):*)
(* fetchSingleTranscript and fetchTranscriptsForVideos.  A video is        *)
(* modelled by its video_id, one other field (title) and the three         *)
(* transcript fields.                                                      *)
(***************************************************************************)
NoTranscript(videoId) ==
    [videoId |-> videoId, raw |-> "", language |-> "", segments |-> <<>>]

\* fetchSingleTranscript, given what fetch + response.json() produced: the
\* body of the endpoint's response, or a thrown error.
fetchSingleTranscript(videoId, reply) ==
    IF ~reply.threw /\ reply.data.success /\ reply.data.raw # ""
    THEN [videoId |-> videoId, raw |-> reply.data.raw,
          language |-> reply.data.language, segments |-> reply.data.segments]
    ELSE NoTranscript(videoId)

\* results.findIndex(v => v.video_id === videoId): first match, 0 for -1
FindIndex(results, videoId) ==
    LET hits == {k \in 1..Len(results) : results[k].video_id = videoId}
    IN  IF hits = {} THEN 0 ELSE CHOOSE k \in hits : \A j \in hits : k <= j

\* Lines 1208-1218: the update loop over the transcripts of one batch.
RECURSIVE UpdateVideos(_, _)
UpdateVideos(results, transcripts) ==
    IF transcripts = <<>> THEN results
    ELSE LET transcript == Head(transcripts)
             videoIndex == FindIndex(results, transcript.videoId)
             updated ==
                 IF videoIndex = 0 THEN results
                 ELSE [results EXCEPT ![videoIndex] =
                          [@ EXCEPT !.transcript_raw = transcript.raw,
                                    !.transcript_language = transcript.language,
                                    !.transcript_segments = transcript.segments]]
         IN  UpdateVideos(updated, Tail(transcripts))

\* Variant: every remaining video is requested at once.
BatchOf_AllRemaining(i, n, concurrency) == (i + 1)..n

\* videos.slice(i, i + concurrency), as the (1-based) positions it holds
BatchOf(i, n, concurrency) ==
    (i + 1)..(IF i + concurrency < n THEN i + concurrency ELSE n)

\* The videos handed to fetchTranscriptsForVideos: transcripts not yet
\* fetched, ids possibly repeated.
VideoIds == {"dQw4w9WgXcQ", "9bZkp7q19f0"}

Titles == << "first", "second", "third", "fourth" >>

VideoLists ==
    {[k \in 1..Len(ids) |->
        [video_id |-> ids[k], title |-> Titles[k], transcript_raw |-> "",
         transcript_language |-> "", transcript_segments |-> <<>>]] :
        ids \in SeqsOf(VideoIds, 0, MaxVideos)}

\* What a request to /api/transcript gives the client: the body of one of the
\* responses GET builds, or a failed fetch.
EndpointReplies ==
    { [threw |-> TRUE, data |-> ValidationFailure("").body] }
    \cup
    {[threw |-> FALSE, data |-> body] :
        body \in { PrimarySuccess("es", <<[text |-> "Hola"]>>, "auto_es").body,
                   FallbackSuccess(<<[text |-> "Hello"], [text |-> "world"]>>).body,
                   FallbackSuccess(<<[text |-> ""]>>).body,
                   TotalFailure("[Transcript Disabled]").body,
                   ValidationFailure("Invalid videoId format").body }}

(***************************************************************************)
(* The faceless score (src/src/lib/scoring.ts).                            *)
(***************************************************************************)
BONUS_CONTENT_KEYWORDS ==
    << "ai", "stock", "footage", "archive", "voiceover", "animation",
       "animated", "motion graphics", "infographic", "b-roll", "narration" >>

BONUS_TITLE_KEYWORDS ==
    << "explained", "history of", "the truth", "documentary", "how",
       "what is", "why", "facts about", "things you", "top 10", "top 5",
       "did you know" >>

PENALTY_TITLE_KEYWORDS ==
    << "vlog", "live", "q&a", "my day", "react", "reaction",
       "day in my life", "get ready with me", "grwm", "unboxing", "haul",
       "room tour", "house tour" >>

\* The alternatives of FIRST_PERSON_PATTERNS, /\b(...)\b/i.
FIRST_PERSON_WORDS == << "i", "me", "my", "we", "our", "i'm", "i've", "i'll" >>

FACELESS_FRIENDLY_CATEGORIES == << "27", "28" >>

\* Array.prototype.some(kw => s.includes(kw))
SomeIncluded(keywords, s) ==
    \E i \in 1..Len(keywords) : Includes(s, keywords[i])

\* Array.prototype.join(" ")
RECURSIVE JoinSpace(_)
JoinSpace(parts) ==
    IF parts = <<>> THEN ""
    ELSE IF Len(parts) = 1 THEN parts[1]
    ELSE parts[1] \o " " \o JoinSpace(Tail(parts))

\* \w of a regular expression, on a lower-cased string.
WordAlphabet == "abcdefghijklmnopqrstuvwxyz0123456789_"

WordChars == {Ch(WordAlphabet, i) : i \in 1..Len(WordAlphabet)}

\* FIRST_PERSON_PATTERNS.test(title): one of the words, with a word boundary
\* on either side, in any letter case.
TestFirstPerson(title) ==
    LET t == toLowerCase(title)
    IN  \E k \in 1..Len(FIRST_PERSON_WORDS) :
          LET w == FIRST_PERSON_WORDS[k]
          IN  \E p \in 1..(Len(t) - Len(w) + 1) :
                /\ SubSeq(t, p, p + Len(w) - 1) = w
                /\ p = 1 \/ Ch(t, p - 1) \notin WordChars
                /\ p + Len(w) > Len(t) \/ Ch(t, p + Len(w)) \notin WordChars

Max(a, b) == IF a >= b THEN a ELSE b

Min(a, b) == IF a <= b THEN a ELSE b

\* Variant: the score is not clamped.
Clamp_Identity(score) == score
\* Line 93: Math.max(0, Math.min(100, score))
Clamp(score) == Max(0, Min(100, score))

\* Lines 95-103.
ConfidenceOf(score) ==
    IF score >= 75 THEN "High"
    ELSE IF score >= 50 THEN "Medium"
    ELSE "Low"

\* channel.keywords is <<>> when the field is undefined, else << string >>.
calculateFacelessScore(video, channel) ==
    LET titleLower == toLowerCase(video.title)
        descLower == toLowerCase(video.description)
        tagsLower ==
            JoinSpace([i \in 1..Len(video.tags) |-> toLowerCase(video.tags[i])])
        keywordsLower ==
            IF channel.keywords = <<>> THEN ""
            ELSE toLowerCase(channel.keywords[1])
        combinedContent ==
            descLower \o " " \o tagsLower \o " " \o keywordsLower
        hasContentBonus == SomeIncluded(BONUS_CONTENT_KEYWORDS, combinedContent)
        hasTitleBonus == SomeIncluded(BONUS_TITLE_KEYWORDS, titleLower)
        categoryBonus ==
            \E i \in 1..Len(FACELESS_FRIENDLY_CATEGORIES) :
                FACELESS_FRIENDLY_CATEGORIES[i] = video.categoryId
        isProductReview ==
            Includes(titleLower, "product") /\ Includes(titleLower, "review")
        hasPenaltyTitle == SomeIncluded(PENALTY_TITLE_KEYWORDS, titleLower)
        s0 == 50
        s1 == IF hasContentBonus THEN s0 + 20 ELSE s0
        s2 == IF hasTitleBonus THEN s1 + 15 ELSE s1
        s3 == IF categoryBonus THEN s2 + 10 ELSE s2
        s4 == IF hasPenaltyTitle /\ ~isProductReview THEN s3 - 40 ELSE s3
        s5 == IF TestFirstPerson(video.title) THEN s4 - 30 ELSE s4
        score == Clamp(s5)
    IN  [score |-> score, confidence |-> ConfidenceOf(score)]

\* Inputs of calculateFacelessScore.
VideoDetails ==
    [title : {"History of AI explained", "My morning vlog",
              "Product review unboxing", "Live Q&A", "We tried it",
              "Cooking pasta", "Why I quit"},
     description : {"", "Stock footage with narration", "Our trip"},
     tags : {<<>>, <<"Animation", "B-Roll">>, <<"travel">>},
     categoryId : {"27", "28", "22"}]

ChannelDetails ==
    [keywords : {<<>>, <<"">>, <<"Infographic channel">>},
     description : {""}]

(***************************************************************************)
(* withRetry (src/src/lib/csv-export.ts, lines 208-250).                   *)
(***************************************************************************)
RETRY_CONFIG == [maxRetries |-> 3, baseDelay |-> 1000, maxDelay |-> 10000]

\* What fn can throw: a YouTubeAPIError with its HTTP code, or another Error
\* (a network failure, an error object that only happens to carry a code).
FnErrors ==
    [kind : {"YouTubeAPIError"}, code : {400, 403, 429, 499, 500}]
        \cup [kind : {"Error"}, code : {0, 404}]

\* Lines 231-235: client errors other than rate limiting are not retried.
NotRetried(error) ==
    /\ error.kind = "YouTubeAPIError"
    /\ error.code >= 400 /\ error.code < 500 /\ error.code # 429

Delay_Uncapped(attempt) == RETRY_CONFIG.baseDelay * 2 ^ attempt
\* Lines 238-241.
Delay(attempt) ==
    Min(RETRY_CONFIG.baseDelay * 2 ^ attempt, RETRY_CONFIG.maxDelay)

(***************************************************************************)
(* The search panel (src/src/components/search-tabs.tsx): which controls   *)
(* can invoke a search handler.  The two buttons and the inputs of the     *)
(* keyword and video-link tabs carry disabled={isLoading}; the input of    *)
(* the channel-handle tab (lines 560-566) does not, and its onKeyDown      *)
(* calls handleChannelHandleSearch on Enter.  No handler tests isLoading.  *)
(***************************************************************************)
SearchModes == {"keyword", "video-link", "channel-handle"}

CanInvoke(mode, control, isLoading) ==
    IF control = "button" THEN ~isLoading
    ELSE mode = "channel-handle" \/ ~isLoading

(***************************************************************************)
(* State.                                                                  *)
(***************************************************************************)
VARIABLES
    request,        \* the query parameters videoId and lang of the request
    pc,             \* where GET stands: validate, primary, select, secondary, done
    attempt,        \* calls of fetchTranscriptWithFallbacks made by pRetry
    captionTracks,  \* track list of the running primary attempt
    pos,            \* strategy block of the selector about to fetch
    tried,          \* fetches of the running (or last) primary attempt, in order
    primaryError,   \* message of the error the last primary attempt threw
    fallbackAttempt,\* calls of YoutubeTranscript.fetchTranscript made by pRetry
    failures,       \* failed attempts so far, per path
    response,       \* the response GET returned
    libraryLang,    \* language of the transcript the library last downloaded
    norm,           \* the text normaliser applied to one input, then again
    decode,         \* fetchTranscriptFromUrl applied to one upstream reply
    resolve,        \* the directory resolver applied to one watch page
    batch,          \* fetchTranscriptsForVideos at work on one list of videos
    search,         \* the search panel: store flags and the handler runs in flight
    retry,          \* withRetry: the loop position and the history of its calls and waits
    score           \* calculateFacelessScore: its input and its result

vars == << request, pc, attempt, captionTracks, pos, tried, primaryError,
           fallbackAttempt, failures, response, libraryLang, norm, decode,
           resolve,
           batch,
           search,
           retry,
           score >>

getVars == << request, pc, attempt, captionTracks, pos, tried, primaryError,
              fallbackAttempt, failures, response, libraryLang >>

NoPos == Pos(0, 0)
NoResponse == [status |-> 0]
NormIdle == [pc |-> "idle", input |-> "", once |-> "", twice |-> ""]
NoReply == [failed |-> FALSE, error |-> "", ok |-> FALSE, json |-> <<>>,
            xml |-> <<>>]
DecodeIdle == [pc |-> "idle", reply |-> NoReply, result |-> Returned(<<>>)]
NoPage == [failed |-> TRUE, error |-> "", ok |-> FALSE,
           hasPlayerResponse |-> FALSE, parses |-> FALSE,
           playerResponse |-> NoPlayerResponse]
ResolveIdle == [pc |-> "idle", page |-> NoPage, result |-> Returned(<<>>),
                error |-> "", reason |-> ""]
NoScore == [score |-> -1, confidence |-> "N/A"]
ScoreIdle == [pc |-> "idle",
              video |-> [title |-> "", description |-> "", tags |-> <<>>,
                         categoryId |-> ""],
              channel |-> [keywords |-> <<>>, description |-> ""],
              result |-> NoScore]
RetryIdle == [pc |-> "idle", retries |-> 0, attempt |-> 0, calls |-> 0,
              errors |-> <<>>, waits |-> <<>>,
              lastError |-> [kind |-> "none", code |-> 0],
              thrown |-> [kind |-> "none", code |-> 0]]
SearchIdle == [searchMode |-> "off", isLoading |-> FALSE, error |-> FALSE,
               running |-> {}, started |-> 0, shown |-> 0,
               staleWrite |-> FALSE]
BatchIdle == [pc |-> "idle", videos |-> <<>>, concurrency |-> 0,
              results |-> <<>>, i |-> 0, inFlight |-> {},
              transcripts |-> <<>>, replies |-> <<>>]

GetInit(req, at) ==
    /\ request = req
    /\ pc = at
    /\ attempt = 0
    /\ captionTracks = <<>>
    /\ pos = NoPos
    /\ tried = <<>>
    /\ primaryError = ""
    /\ fallbackAttempt = 0
    /\ failures = [primary |-> 0, secondary |-> 0]
    /\ response = NoResponse
    /\ libraryLang = <<>>

\* A request has arrived at GET.
Init ==
    /\ \E req \in Requests : GetInit(req, "validate")
    /\ norm = NormIdle
    /\ decode = DecodeIdle
    /\ score = ScoreIdle
    /\ retry = RetryIdle
    /\ search = SearchIdle
    /\ batch = BatchIdle
    /\ resolve = ResolveIdle

(***************************************************************************)
(* GET, one action per stretch of code between two awaits.                 *)
(***************************************************************************)
\* Lines 763-787: parameter validation; a valid id enters the primary pRetry.
ValidateRequest ==
    /\ pc = "validate"
    /\ IF request.videoId = <<>> \/ request.videoId[1] = ""
       THEN /\ response' = ValidationFailure("Missing videoId parameter")
            /\ pc' = "done"
       ELSE IF ~isValidVideoId(request.videoId[1])
       THEN /\ response' = ValidationFailure("Invalid videoId format")
            /\ pc' = "done"
       ELSE /\ pc' = "primary"
            /\ UNCHANGED response
    /\ UNCHANGED << request, attempt, captionTracks, pos, tried, primaryError,
                    fallbackAttempt, failures, libraryLang, norm, decode,
                    resolve,
                    batch,
                    search,
                    retry,
                    score >>

\* Variant: a video without caption tracks is taken as final and not retried.
PrimaryAttemptFailed_DisabledIsFinal(a, msg) ==
    /\ primaryError' = msg
    /\ failures' = [failures EXCEPT !.primary = @ + 1]
    /\ pc' = IF a <= PrimaryRetries /\ msg # "No caption tracks available"
             THEN "primary" ELSE "secondary"

\* Variant: the first failure of the primary path goes to the library at once.
PrimaryAttemptFailed_NoRetry(a, msg) ==
    /\ primaryError' = msg
    /\ failures' = [failures EXCEPT !.primary = @ + 1]
    /\ pc' = "secondary"

\* pRetry (lines 791-803, 820): attempt number `a` of the primary path threw
\* `msg`; it is retried while retries are left, else GET's catch block runs.
PrimaryAttemptFailed(a, msg) ==
    /\ primaryError' = msg
    /\ failures' = [failures EXCEPT !.primary = @ + 1]
    /\ pc' = IF a <= PrimaryRetries THEN "primary" ELSE "secondary"

\* Variant: the locators of the first page load are kept and handed out again
\* by later attempts.
WithLocators_FirstLoad(declared, a) ==
    [k \in 1..Len(declared) |->
        [baseUrl |-> [page |-> 1, n |-> k],
         languageCode |-> declared[k].languageCode,
         kind |-> declared[k].kind]]

\* The locators of a track list are those of the page load that declared it.
WithLocators(declared, a) ==
    [k \in 1..Len(declared) |->
        [baseUrl |-> [page |-> a, n |-> k],
         languageCode |-> declared[k].languageCode,
         kind |-> declared[k].kind]]

\* Lines 595-601: a primary attempt starts: fetchTranscriptWithFallbacks
\* resolves the directory and enters the first strategy block that has a track.
ResolveDirectory ==
    /\ pc = "primary"
    /\ \E dir \in Directories :
        LET a == attempt + 1
        IN  /\ attempt' = a
            /\ tried' = <<>>
            /\ IF dir.threw
               THEN /\ PrimaryAttemptFailed(a, dir.error)
                    /\ captionTracks' = <<>>
                    /\ pos' = NoPos
               ELSE IF Len(dir.value) = 0
               THEN /\ PrimaryAttemptFailed(
                           a, "No caption tracks available for this video")
                    /\ captionTracks' = <<>>
                    /\ pos' = NoPos
               ELSE /\ captionTracks' = WithLocators(dir.value, a)
                    /\ pos' = SkipToFetch(Pos(1, 0), captionTracks'
                                          , PreferredLang(request))
                    /\ pc' = "select"
                    /\ primaryError' = ""
                    /\ UNCHANGED failures
    /\ UNCHANGED << request, fallbackAttempt, response, libraryLang, norm,
                    decode,
                    resolve,
                    batch,
                    search,
                    retry,
                    score >>

\* Lines 603-731 and 805-819: the strategy block at `pos` fetches its track; a
\* non-empty result is returned and GET answers with it, a failure moves on to
\* the next block that has a track, an error thrown outside a try block
\* leaves the function, and the last block's empty result throws.
FetchTrack ==
    /\ pc = "select"
    /\ \E result \in TrackResults :
        LET preferredLang == PreferredLang(request)
            k        == StrategyTrack(pos, captionTracks, preferredLang)
            track    == captionTracks[k]
            segments == result.value
            yielded  == ~result.threw /\ Len(segments) > 0
            entry    == [pos |-> pos, track |-> k, baseUrl |-> track.baseUrl,
                         yielded |-> yielded]
        IN  /\ IF Returns(result)
               THEN /\ response' = PrimarySuccess(
                           track.languageCode, segments,
                           MethodTag(pos, track, preferredLang))
                    /\ pc' = "done"
                    /\ tried' = Append(tried, entry)
                    /\ UNCHANGED << pos, primaryError, failures,
                                    captionTracks >>
               ELSE IF (result.threw /\ ~InTryBlock(pos)) \/ pos.s = 7
               THEN /\ PrimaryAttemptFailed(
                           attempt,
                           IF result.threw THEN result.error
                           ELSE "All transcript fetch strategies failed")
                    /\ captionTracks' = <<>>
                    /\ pos' = NoPos
                    /\ tried' = <<>>
                    /\ UNCHANGED response
               ELSE /\ pos' = SkipToFetch(NextStrategy(pos), captionTracks,
                                          preferredLang)
                    /\ tried' = Append(tried, entry)
                    /\ UNCHANGED << pc, primaryError, failures, response,
                                    captionTracks >>
    /\ UNCHANGED << request, attempt, fallbackAttempt, libraryLang, norm,
                    decode,
                    resolve,
                    batch,
                    search,
                    retry,
                    score >>

\* Lines 826-872: one call of the library by the secondary pRetry; a non-empty
\* transcript is answered, an empty or thrown one is retried while retries are
\* left, and after the last one GET answers with the classified primary error.
SecondaryAttempt ==
    /\ pc = "secondary"
    /\ \E reply \in LibraryReplies :
        LET n == fallbackAttempt + 1
        IN  /\ fallbackAttempt' = n
            /\ libraryLang' = IF reply.threw THEN <<>> ELSE <<reply.language>>
            /\ IF reply.threw \/ Len(reply.items) = 0
               THEN /\ failures' = [failures EXCEPT !.secondary = @ + 1]
                    /\ IF n <= SecondaryRetries
                       THEN UNCHANGED << pc, response >>
                       ELSE /\ response' = TotalFailure(
                                   getTranscriptErrorMessage(primaryError))
                            /\ pc' = "done"
               ELSE LET segments ==
                            [i \in 1..Len(reply.items) |->
                                [text |->
                                    cleanTranscriptText(reply.items[i].text)]]
                    IN  /\ response' = FallbackSuccess(segments)
                        /\ pc' = "done"
                        /\ UNCHANGED failures
    /\ UNCHANGED << request, attempt, captionTracks, pos, tried, primaryError,
                    norm, decode,
                    resolve,
                    batch,
                    search,
                    retry,
                    score >>

Next ==
    \/ ValidateRequest
    \/ ResolveDirectory
    \/ FetchTrack
    \/ SecondaryAttempt

Spec == Init /\ [][Next]_vars

(***************************************************************************)
(* GET with an upstream that may leave a call unanswered.  The three       *)
(* awaited calls (fetch of the watch page, line 484; fetch of a track      *)
(* locator, line 560; YoutubeTranscript.fetchTranscript, line 830) are     *)
(* made without a signal, a timeout or a race against a timer, so nothing  *)
(* resumes GET from a call that never settles.                             *)
(***************************************************************************)
UpstreamNeverAnswers ==
    /\ pc \in {"primary", "select", "secondary"}
    /\ pc' = "waiting"
    /\ UNCHANGED << request, attempt, captionTracks, pos, tried, primaryError,
                    fallbackAttempt, failures, response, libraryLang, norm,
                    decode,
                    resolve,
                    batch,
                    search,
                    retry,
                    score >>

NextUnanswered ==
    \/ ValidateRequest
    \/ ResolveDirectory
    \/ FetchTrack
    \/ SecondaryAttempt
    \/ UpstreamNeverAnswers

SpecUnanswered == Init /\ [][NextUnanswered]_vars

(***************************************************************************)
(* The text normaliser on its own: an input, normalised, then normalised   *)
(* again.                                                                  *)
(***************************************************************************)
InitClean ==
    /\ GetInit([videoId |-> <<>>, lang |-> <<>>], "off")
    /\ \E t \in NormaliserInputs :
          norm = [pc |-> "input", input |-> t, once |-> "", twice |-> ""]
    /\ decode = DecodeIdle
    /\ score = ScoreIdle
    /\ retry = RetryIdle
    /\ search = SearchIdle
    /\ batch = BatchIdle
    /\ resolve = ResolveIdle

CleanOnce ==
    /\ norm.pc = "input"
    /\ norm' = [norm EXCEPT !.pc = "once",
                            !.once = cleanTranscriptText(norm.input)]
    /\ UNCHANGED << getVars, decode,
                    resolve,
                    batch,
                    search,
                    retry,
                    score >>

CleanTwice ==
    /\ norm.pc = "once"
    /\ norm' = [norm EXCEPT !.pc = "twice",
                            !.twice = cleanTranscriptText(norm.once)]
    /\ UNCHANGED << getVars, decode,
                    resolve,
                    batch,
                    search,
                    retry,
                    score >>

NextClean ==
    \/ CleanOnce
    \/ CleanTwice

SpecClean == InitClean /\ [][NextClean]_vars

(***************************************************************************)
(* The track fetcher on its own: a caption track locator is fetched and    *)
(* the reply is decoded.                                                   *)
(***************************************************************************)
InitDecode ==
    /\ GetInit([videoId |-> <<>>, lang |-> <<>>], "off")
    /\ norm = NormIdle
    /\ decode = [DecodeIdle EXCEPT !.pc = "fetch"]
    /\ score = ScoreIdle
    /\ retry = RetryIdle
    /\ search = SearchIdle
    /\ batch = BatchIdle
    /\ resolve = ResolveIdle

\* Line 560: the fetch of the locator is answered (or fails).
FetchPayload ==
    /\ decode.pc = "fetch"
    /\ \E reply \in TrackReplies :
          decode' = [decode EXCEPT !.pc = "decode", !.reply = reply]
    /\ UNCHANGED << getVars, norm,
                    resolve,
                    batch,
                    search,
                    retry,
                    score >>

\* Lines 566-586: the status test and the two decoders.
DecodePayload ==
    /\ decode.pc = "decode"
    /\ decode' = [decode EXCEPT !.pc = "done",
                                !.result = fetchTranscriptFromUrl(decode.reply)]
    /\ UNCHANGED << getVars, norm,
                    resolve,
                    batch,
                    search,
                    retry,
                    score >>

NextDecode ==
    \/ FetchPayload
    \/ DecodePayload

SpecDecode == InitDecode /\ [][NextDecode]_vars

(***************************************************************************)
(* The directory resolver on its own: a watch page is loaded, the player   *)
(* configuration is extracted, and the attempt's outcome is classified as  *)
(* GET classifies the error of its last primary attempt.                   *)
(***************************************************************************)
InitResolve ==
    /\ GetInit([videoId |-> <<>>, lang |-> <<>>], "off")
    /\ norm = NormIdle
    /\ decode = DecodeIdle
    /\ score = ScoreIdle
    /\ retry = RetryIdle
    /\ search = SearchIdle
    /\ batch = BatchIdle
    /\ resolve = [ResolveIdle EXCEPT !.pc = "load"]

\* Line 484: the fetch of the watch page is answered (or fails).
LoadPage ==
    /\ resolve.pc = "load"
    /\ \E page \in Pages :
          resolve' = [resolve EXCEPT !.pc = "extract", !.page = page]
    /\ UNCHANGED << getVars, norm, decode,
                    batch,
                    search,
                    retry,
                    score >>

\* Lines 491-513: getCaptionTracks on the loaded page.
ExtractTracks ==
    /\ resolve.pc = "extract"
    /\ resolve' = [resolve EXCEPT !.pc = "classify",
                                  !.result = getCaptionTracks(resolve.page)]
    /\ UNCHANGED << getVars, norm, decode,
                    batch,
                    search,
                    retry,
                    score >>

\* Lines 595-599 and 863: the error with which the attempt fails before any
\* track is fetched, and the reason GET reports for it.
ClassifyOutcome ==
    /\ resolve.pc = "classify"
    /\ LET error == IF resolve.result.threw THEN resolve.result.error
                    ELSE IF Len(resolve.result.value) = 0
                    THEN "No caption tracks available for this video"
                    ELSE ""
       IN  resolve' = [resolve EXCEPT
                          !.pc = "done",
                          !.error = error,
                          !.reason = IF error = "" THEN ""
                                     ELSE getTranscriptErrorMessage(error)]
    /\ UNCHANGED << getVars, norm, decode,
                    batch,
                    search,
                    retry,
                    score >>

NextResolve ==
    \/ LoadPage
    \/ ExtractTracks
    \/ ClassifyOutcome

SpecResolve == InitResolve /\ [][NextResolve]_vars

(***************************************************************************)
(* fetchTranscriptsForVideos.  `transcripts` and `replies` hold, per       *)
(* position of the input, what fetchSingleTranscript resolved with and     *)
(* what the endpoint had answered (<<>> while there is none).              *)
(***************************************************************************)
InitBatch ==
    /\ GetInit([videoId |-> <<>>, lang |-> <<>>], "off")
    /\ norm = NormIdle
    /\ decode = DecodeIdle
    /\ score = ScoreIdle
    /\ retry = RetryIdle
    /\ search = SearchIdle
    /\ resolve = ResolveIdle
    /\ \E videos \in VideoLists, concurrency \in {1, 2, DefaultConcurrency} :
          batch = [pc |-> "loop", videos |-> videos,
                   concurrency |-> concurrency,
                   results |-> videos, i |-> 0, inFlight |-> {},
                   transcripts |-> [k \in 1..Len(videos) |-> <<>>],
                   replies |-> [k \in 1..Len(videos) |-> <<>>]]

\* Lines 1199-1203: the loop test holds; the requests of the next batch are
\* issued together.
StartBatch ==
    /\ batch.pc = "loop"
    /\ batch.i < Len(batch.videos)
    /\ batch' = [batch EXCEPT
                    !.pc = "await",
                    !.inFlight = BatchOf(batch.i, Len(batch.videos),
                                         batch.concurrency)]
    /\ UNCHANGED << getVars, norm, decode, resolve,
                    search,
                    retry,
                    score >>

\* Lines 1167-1188: one request in flight is answered and its
\* fetchSingleTranscript resolves (it never rejects).
SettleTranscript ==
    /\ batch.pc = "await"
    /\ \E k \in batch.inFlight, reply \in EndpointReplies :
          batch' = [batch EXCEPT
                       !.inFlight = @ \ {k},
                       !.replies[k] = <<reply>>,
                       !.transcripts[k] =
                           <<fetchSingleTranscript(batch.videos[k].video_id,
                                                   reply)>>]
    /\ UNCHANGED << getVars, norm, decode, resolve,
                    search,
                    retry,
                    score >>

\* Lines 1205-1218: Promise.all resolves with the batch's transcripts in
\* batch order, the update loop runs, and i advances.
UpdateResults ==
    /\ batch.pc = "await"
    /\ batch.inFlight = {}
    /\ LET positions == BatchOf(batch.i, Len(batch.videos), batch.concurrency)
           transcripts ==
               [j \in 1..Cardinality(positions) |->
                   batch.transcripts[batch.i + j][1]]
       IN  batch' = [batch EXCEPT
                        !.pc = "loop",
                        !.results = UpdateVideos(batch.results, transcripts),
                        !.i = batch.i + batch.concurrency]
    /\ UNCHANGED << getVars, norm, decode, resolve,
                    search,
                    retry,
                    score >>

\* Line 1221: the loop test fails; results is returned.
ReturnResults ==
    /\ batch.pc = "loop"
    /\ batch.i >= Len(batch.videos)
    /\ batch' = [batch EXCEPT !.pc = "done"]
    /\ UNCHANGED << getVars, norm, decode, resolve,
                    search,
                    retry,
                    score >>

NextBatch ==
    \/ StartBatch
    \/ SettleTranscript
    \/ UpdateResults
    \/ ReturnResults

SpecBatch == InitBatch /\ [][NextBatch]_vars

(***************************************************************************)
(* The search panel.  A handler run is its number in order of start, its   *)
(* mode and how far it has come; `shown` is the run whose videos           *)
(* setResults last stored, `staleWrite` whether a run that was no longer   *)
(* the most recently started one has stored results.                       *)
(***************************************************************************)
InitSearch ==
    /\ GetInit([videoId |-> <<>>, lang |-> <<>>], "off")
    /\ norm = NormIdle
    /\ decode = DecodeIdle
    /\ score = ScoreIdle
    /\ retry = RetryIdle
    /\ resolve = ResolveIdle
    /\ batch = BatchIdle
    /\ search = [SearchIdle EXCEPT !.searchMode = "keyword"]

OutsideSearch == << getVars, norm, decode, resolve, batch, retry, score >>

\* handleTabChange (lines 47-51); the tab list is never disabled.
ChangeTab ==
    /\ search.searchMode \in SearchModes
    /\ \E mode \in SearchModes \ {search.searchMode} :
          search' = [search EXCEPT !.searchMode = mode, !.error = FALSE]
    /\ UNCHANGED OutsideSearch

\* A control of the visible tab invokes its handler (lines 62-79, 137-155,
\* 233-253): invalid input sets the error and returns, valid input sets
\* isLoading and starts the run.
InvokeHandler ==
    /\ search.searchMode \in SearchModes
    /\ search.started < MaxSearches
    /\ \E control \in {"button", "enter"}, valid \in BOOLEAN :
          /\ CanInvoke(search.searchMode, control, search.isLoading)
          /\ IF ~valid
             THEN search' = [search EXCEPT !.error = TRUE]
             ELSE search' = [search EXCEPT
                                !.isLoading = TRUE,
                                !.error = FALSE,
                                !.started = @ + 1,
                                !.running = @ \cup
                                    {[id |-> search.started + 1,
                                      mode |-> search.searchMode,
                                      stage |-> "search"]}]
    /\ UNCHANGED OutsideSearch

\* Lines 122, 218, 417: setResults(videos) before the transcripts are fetched.
ShowResults ==
    /\ \E run \in search.running :
          /\ run.stage = "search"
          /\ search' = [search EXCEPT
                            !.running = (@ \ {run}) \cup
                                {[run EXCEPT !.stage = "transcripts"]},
                            !.shown = run.id,
                            !.staleWrite = @ \/ run.id # search.started]
    /\ UNCHANGED OutsideSearch

\* Lines 127, 223, 424: setResults(videosWithTranscripts), then the finally
\* block (lines 131, 227, 430).
FinishSearch ==
    /\ \E run \in search.running :
          /\ run.stage = "transcripts"
          /\ search' = [search EXCEPT
                            !.running = @ \ {run},
                            !.shown = run.id,
                            !.staleWrite = @ \/ run.id # search.started,
                            !.isLoading = FALSE]
    /\ UNCHANGED OutsideSearch

\* Lines 128-132, 224-228, 427-431: an API call of the run throws; catch,
\* then finally.
FailSearch ==
    /\ \E run \in search.running :
          /\ run.stage = "search"
          /\ search' = [search EXCEPT
                            !.running = @ \ {run},
                            !.error = TRUE,
                            !.isLoading = FALSE]
    /\ UNCHANGED OutsideSearch

NextSearch ==
    \/ ChangeTab
    \/ InvokeHandler
    \/ ShowResults
    \/ FinishSearch
    \/ FailSearch

SpecSearch == InitSearch /\ [][NextSearch]_vars

(***************************************************************************)
(* withRetry, one step per await.  `errors` lists what the calls of fn     *)
(* threw, `waits` the delays slept, in order.                              *)
(***************************************************************************)
InitRetry ==
    /\ GetInit([videoId |-> <<>>, lang |-> <<>>], "off")
    /\ norm = NormIdle
    /\ decode = DecodeIdle
    /\ score = ScoreIdle
    /\ resolve = ResolveIdle
    /\ batch = BatchIdle
    /\ search = SearchIdle
    /\ retry = RetryIdle

OutsideRetry == << getVars, norm, decode, resolve, batch, search, score >>

\* Lines 219-225: entry, with the `retries` argument.
CallWithRetry ==
    /\ retry.pc = "idle"
    /\ \E retries \in 0..MaxRetries :
          retry' = [retry EXCEPT !.pc = "calling", !.retries = retries]
    /\ UNCHANGED OutsideRetry

\* Line 227: fn resolves.
FnReturns ==
    /\ retry.pc = "calling"
    /\ retry' = [retry EXCEPT !.pc = "returned", !.calls = @ + 1]
    /\ UNCHANGED OutsideRetry

\* Lines 228-246: fn rejects; rethrow, sleep, or leave the loop and throw
\* lastError (line 249).
FnThrows ==
    /\ retry.pc = "calling"
    /\ \E error \in FnErrors :
          LET caught == [retry EXCEPT !.calls = @ + 1,
                                      !.errors = Append(@, error),
                                      !.lastError = error]
          IN  retry' =
                IF NotRetried(error)
                THEN [caught EXCEPT !.pc = "thrown", !.thrown = error]
                ELSE IF retry.attempt < retry.retries
                     THEN [caught EXCEPT !.pc = "sleeping"]
                     ELSE [caught EXCEPT !.pc = "thrown",
                                         !.attempt = @ + 1,
                                         !.thrown = error]
    /\ UNCHANGED OutsideRetry

\* Line 243: the backoff sleep ends and the loop goes round.
SleepEnds ==
    /\ retry.pc = "sleeping"
    /\ retry' = [retry EXCEPT !.pc = "calling",
                              !.waits = Append(@, Delay(retry.attempt)),
                              !.attempt = @ + 1]
    /\ UNCHANGED OutsideRetry

NextRetry ==
    \/ CallWithRetry
    \/ FnReturns
    \/ FnThrows
    \/ SleepEnds

SpecRetry == InitRetry /\ [][NextRetry]_vars

(***************************************************************************)
(* calculateFacelessScore applied to one video and its channel.            *)
(***************************************************************************)
InitScore ==
    /\ GetInit([videoId |-> <<>>, lang |-> <<>>], "off")
    /\ norm = NormIdle
    /\ decode = DecodeIdle
    /\ resolve = ResolveIdle
    /\ batch = BatchIdle
    /\ search = SearchIdle
    /\ retry = RetryIdle
    /\ \E video \in VideoDetails, channel \in ChannelDetails :
          score = [ScoreIdle EXCEPT !.pc = "input", !.video = video,
                                    !.channel = channel]

ScoreVideo ==
    /\ score.pc = "input"
    /\ score' = [score EXCEPT
                    !.pc = "scored",
                    !.result = calculateFacelessScore(score.video, score.channel)]
    /\ UNCHANGED << getVars, norm, decode, resolve, batch, search, retry >>

NextScore == ScoreVideo

SpecScore == InitScore /\ [][NextScore]_vars

(***************************************************************************)
(* Properties.                                                             *)
(***************************************************************************)
Done == pc = "done"
Body == response.body

\* The id pattern of the external interface: ^[A-Za-z0-9_-]{11}$
MatchesIdPattern(id) ==
    /\ Len(id) = 11
    /\ \A i \in 1..Len(id) : \E j \in 1..Len(IdAlphabet) : Ch(id, i) = Ch(IdAlphabet, j)

\* The ids of the modelled requests that match it.
PatternIds ==
    {r.videoId[1] : r \in {q \in Requests : q.videoId # <<>>
                                            /\ MatchesIdPattern(q.videoId[1])}}

ValidRequest == request.videoId # <<>> /\ request.videoId[1] \in PatternIds

HasError == "error" \in DOMAIN Body /\ Body.error # ""

\* C1: a request whose videoId is missing or does not match the id pattern is
\* answered success=false with an error string and status 400, and for it no
\* primary attempt (directory resolution, track fetch, retry) and no
\* secondary-path call is ever made.
C1_InvalidIdRejected ==
    (pc # "off" /\ ~ValidRequest) =>
        /\ pc \in {"validate", "done"}
        /\ attempt = 0
        /\ fallbackAttempt = 0
        /\ tried = <<>>
        /\ captionTracks = <<>>
        /\ Done => /\ response.status = 400
                   /\ Body.success = FALSE
                   /\ HasError

C1_Witness ==
    /\ Done
    /\ request.videoId = <<"!!!invalid">>
    /\ response.status = 400
    /\ Body.error = "Invalid videoId format"

\* C2: for a valid id every response has success=true and carries segments,
\* raw and language, whatever the upstream answered; the success flag is true
\* exactly for valid ids.
C2_ValidIdSucceeds ==
    Done =>
        /\ Body.success <=> ValidRequest
        /\ ValidRequest => {"segments", "raw", "language"} \subseteq DOMAIN Body

C2_Witness ==
    /\ Done
    /\ ValidRequest
    /\ Body.success
    /\ Body.segments = <<>>
    /\ failures.primary = PrimaryRetries + 1

\* C3: in every response raw is the texts of segments joined with single
\* spaces and trimmed, so raw is empty whenever segments is empty.
C3_RawIsJoinedText ==
    Done => Body.raw = Trim(JoinWith([k \in 1..Len(Body.segments) |->
                                          Body.segments[k].text], " "))

\* C4: for a valid id the failure shape (success=true, no segments, non-empty
\* error) is returned exactly when every primary attempt and every secondary
\* attempt failed; the response is then well-formed.
FailureShape == Body.success /\ Body.segments = <<>> /\ HasError

EveryAttemptFailed ==
    /\ attempt > 0 /\ failures.primary = attempt
    /\ fallbackAttempt > 0 /\ failures.secondary = fallbackAttempt

C4_FailureShapeIffExhausted ==
    (Done /\ ValidRequest) =>
        /\ FailureShape <=> EveryAttemptFailed
        /\ EveryAttemptFailed =>
              /\ response.status = 200
              /\ {"success", "language", "segments", "raw"} \subseteq DOMAIN Body

C4_Witness ==
    /\ Done
    /\ ValidRequest
    /\ FailureShape
    /\ EveryAttemptFailed
    /\ Body.error = "[Network Error]"

\* C5: a response is marked cacheable (public, s-maxage, stale-while-
\* revalidate) if and only if its segments list is non-empty, and no-store
\* otherwise, on every path of GET.
CacheableDirective == "public, s-maxage=3600, stale-while-revalidate=7200"

Cacheable == response.cacheControl = CacheableDirective

C5_CacheableIffSegments ==
    Done =>
        /\ Cacheable <=> Len(Body.segments) > 0
        /\ ~Cacheable => response.cacheControl = "no-store"

C5_Witness ==
    /\ Done
    /\ Len(Body.segments) > 0
    /\ Body.method = "youtube-transcript-fallback"
    /\ Cacheable

(***************************************************************************)
(* The declared tier order, written down independently of the selector.    *)
(***************************************************************************)
IsPrefixOf(p, str) == \E rest \in {Drop(str, Len(p))} : str = p \o rest

\* The (language, track language code) pairs of the model in which the
\* language is a prefix of the code ("" is a prefix of every code).
PrefixPairs ==
    LET langs == {LANGUAGE_PRIORITY[i] : i \in 1..Len(LANGUAGE_PRIORITY)}
                 \cup {r.lang[1] : r \in {q \in Requests : q.lang # <<>>}}
                 \cup {""}
        codes == {t.languageCode : t \in TrackPool}
    IN  {<<p[1], p[2]>> : p \in {q \in langs \X codes : IsPrefixOf(q[1], q[2])}}

LangGiven == request.lang # <<>> /\ request.lang[1] # ""

Tier(n, idx, lang, auto) == [tier |-> n, idx |-> idx, lang |-> lang, auto |-> auto]

\* 1 preferred manual, 2 preferred auto, 3 priority-table manual in table
\* order, 4 priority-table auto in table order, 5 any manual, 6 any auto,
\* 7 first track; tiers 1 and 2 only when a preferred language is given.
DeclaredTiers(lang) ==
    (IF lang # <<>> /\ lang[1] # ""
     THEN << Tier(1, 0, lang[1], FALSE), Tier(2, 0, lang[1], TRUE) >>
     ELSE << >>)
    \o [i \in 1..Len(LANGUAGE_PRIORITY) |-> Tier(3, i, LANGUAGE_PRIORITY[i], FALSE)]
    \o [i \in 1..Len(LANGUAGE_PRIORITY) |-> Tier(4, i, LANGUAGE_PRIORITY[i], TRUE)]
    \o << Tier(5, 0, "", FALSE), Tier(6, 0, "", TRUE), Tier(7, 0, "", FALSE) >>

\* The candidate track of a tier in a track list, 0 when it has none.
TierCandidate(t, tracks) ==
    IF t.tier = 7 THEN 1
    ELSE LET hits == {k \in 1..Len(tracks) :
                         /\ (tracks[k].kind = "asr") = t.auto
                         /\ <<t.lang, tracks[k].languageCode>> \in PrefixPairs}
         IN  IF hits = {} THEN 0 ELSE CHOOSE k \in hits : \A j \in hits : k <= j

\* The fetches the declared order asks for: the tiers that have a candidate,
\* in declared order, each with its candidate.
RECURSIVE FetchesOf(_, _)
FetchesOf(tiers, tracks) ==
    IF tiers = <<>> THEN <<>>
    ELSE LET t == Head(tiers)
             k == TierCandidate(t, tracks)
         IN  (IF k = 0 THEN <<>>
              ELSE <<[pos |-> Pos(t.tier, t.idx), track |-> k]>>)
             \o FetchesOf(Tail(tiers), tracks)

DeclaredFetches(lang, tracks) == FetchesOf(DeclaredTiers(lang), tracks)

DeclaredTrack(t) == [languageCode |-> t.languageCode, kind |-> t.kind]

\* The same, tabulated for every lang parameter and declared track list of
\* the model.
DeclaredFetchRows ==
    {[lang |-> lang, tracks |-> tracks, fetches |-> DeclaredFetches(lang, tracks)] :
        lang \in {r.lang : r \in Requests},
        tracks \in SeqsOf(TrackPool, 1, MaxTracks)}

\* The fetches the declared order asks for in the running attempt.
ExpectedFetches ==
    LET declared == [k \in 1..Len(captionTracks) |->
                        DeclaredTrack(captionTracks[k])]
    IN  (CHOOSE row \in DeclaredFetchRows :
            row.lang = request.lang /\ row.tracks = declared).fetches

\* The selector is running, or has returned a transcript to GET.
InSelector == pc = "select" \/ (Done /\ tried # <<>>)

C6_EarliestTier ==
    InSelector =>
        \A E \in {ExpectedFetches}, n \in {Len(tried)} :
            /\ n <= Len(E)
            /\ \A j \in 1..n :
                  /\ tried[j].pos = E[j].pos
                  /\ tried[j].track = E[j].track
            /\ \A j \in 1..(n - 1) : ~tried[j].yielded
            /\ pc = "select" =>
                  /\ n < Len(E)
                  /\ pos = E[n + 1].pos
                  /\ n > 0 => ~tried[n].yielded
            /\ Done =>
                  /\ tried[n].yielded
                  /\ Len(Body.segments) > 0
                  /\ Body.language = captionTracks[tried[n].track].languageCode

\* The selector throws only from the fetch of the last tier that has a
\* candidate (the first track), every earlier one having been tried.
C6_FailsLast ==
    (pc = "select" /\ pc' \notin {"select", "done"}) =>
        Len(tried) + 1 = Len(ExpectedFetches)

\* C6: fetchTranscriptWithFallbacks returns the result of the earliest tier, in
\* the order preferred-manual, preferred-auto, priority manual, priority auto,
\* any manual, any auto, first track, whose candidate track exists and whose
\* fetch yields at least one segment (tiers 1 and 2 skipped without a preferred
\* language): the fetches made are those of the tiers with a candidate, in that
\* order, every one before the returned one has failed, and the selector fails
\* only after the last of them.
C6_SelectorOrder == [] C6_EarliestTier /\ [][C6_FailsLast]_vars

C6_Witness ==
    /\ Done
    /\ LangGiven
    /\ Len(tried) >= 3
    /\ tried[Len(tried)].pos.s = 6
    /\ Body.method = "any_auto_sv"

\* The running attempt's track list holds exactly the two given tracks.
TracksAre(a, b) ==
    /\ pc \in {"select", "done"}
    /\ Len(captionTracks) = 2
    /\ {DeclaredTrack(captionTracks[k]) : k \in 1..2} = {a, b}

FetchedTrack(j) == DeclaredTrack(captionTracks[tried[j].track])

EnManual == [languageCode |-> "en-US", kind |-> "standard"]
EsAuto == [languageCode |-> "es", kind |-> "asr"]
FrManual == [languageCode |-> "fr", kind |-> "standard"]
SvManual == [languageCode |-> "sv", kind |-> "standard"]

\* C7: with a manual English track, an auto-generated Spanish track and the
\* preference "es", tier 1 finds no Spanish manual track, the first fetch is
\* that of the Spanish auto track at tier 2, its transcript is what is
\* returned when it yields one, and the English track is not fetched unless
\* that fetch failed.
C7_PreferredAutoSelected ==
    (TracksAre(EnManual, EsAuto) /\ request.lang = <<"es">>) =>
        /\ tried = <<>> => pos = Pos(2, 0)
        /\ tried # <<>> =>
              /\ tried[1].pos = Pos(2, 0)
              /\ FetchedTrack(1) = EsAuto
              /\ tried[1].yielded =>
                    /\ Done
                    /\ Len(tried) = 1
                    /\ Body.language = "es"
                    /\ Body.method = "auto_es"
        /\ \A j \in 1..Len(tried) :
              FetchedTrack(j) = EnManual => (j > 1 /\ ~tried[1].yielded)

C7_Witness ==
    /\ TracksAre(EnManual, EsAuto)
    /\ request.lang = <<"es">>
    /\ Done
    /\ Len(tried) = 1
    /\ Body.language = "es"
    /\ Body.method = "auto_es"

\* C8 as stated: with only an auto-generated es track and a manual fr track
\* and no preferred language, the manual tiers find nothing, auto-es is the
\* first track fetched, and fr is not fetched before the last-resort tier.
C8_FrNeverBeforeLastResort ==
    (TracksAre(EsAuto, FrManual) /\ request.lang = <<>>) =>
        /\ tried # <<>> => (FetchedTrack(1) = EsAuto /\ tried[1].pos.s = 4)
        /\ \A j \in 1..Len(tried) :
              FetchedTrack(j) = FrManual => tried[j].pos.s = 7

\* C8 as the code has it: LANGUAGE_PRIORITY is fixed and contains fr, so a
\* manual fr track is fetched first, by the manual priority loop; a manual
\* track of a language outside the table (sv) is passed over by both loops,
\* auto-es is fetched first and returned when it yields, and the sv track is
\* fetched only after that fetch failed, by the any-manual or first-track tier.
C8_OutsideTableAfterPriority ==
    /\ (TracksAre(EsAuto, SvManual) /\ request.lang = <<>>) =>
          /\ tried = <<>> => (pos.s = 4 /\ LANGUAGE_PRIORITY[pos.i] = "es")
          /\ tried # <<>> =>
                /\ FetchedTrack(1) = EsAuto
                /\ tried[1].pos.s = 4
                /\ LANGUAGE_PRIORITY[tried[1].pos.i] = "es"
                /\ tried[1].yielded =>
                      /\ Done
                      /\ Body.language = "es"
                      /\ Body.method = "auto_priority_es"
          /\ \A j \in 1..Len(tried) :
                FetchedTrack(j) = SvManual =>
                    /\ j > 1
                    /\ tried[j].pos.s \in {5, 7}
                    /\ \A i \in 1..(j - 1) : ~tried[i].yielded
    /\ (TracksAre(EsAuto, FrManual) /\ request.lang = <<>>) =>
          /\ tried = <<>> => (pos.s = 3 /\ LANGUAGE_PRIORITY[pos.i] = "fr")
          /\ tried # <<>> =>
                /\ FetchedTrack(1) = FrManual
                /\ tried[1].pos.s = 3
                /\ LANGUAGE_PRIORITY[tried[1].pos.i] = "fr"

C8_Witness ==
    /\ TracksAre(EsAuto, SvManual)
    /\ request.lang = <<>>
    /\ Done
    /\ Len(tried) = 1
    /\ Body.method = "auto_priority_es"

\* C9: every response that carries segments has at least one segment whose
\* text is non-empty; an all-empty decode or library result is a failure of
\* that track or path.
C9_SegmentsHaveText ==
    (Done /\ Len(Body.segments) > 0) =>
        \E k \in 1..Len(Body.segments) : Body.segments[k].text # ""

\* C10: cleanTranscriptText is idempotent: cleaning a cleaned text changes
\* nothing.
C10_CleanIdempotent ==
    norm.pc = "twice" => norm.twice = norm.once

\* The payload was fetched, and it does not parse as JSON or the json3 decoder
\* finds no segment in it.
ModernDecoderEmpty ==
    /\ decode.pc = "done"
    /\ ~decode.reply.failed
    /\ decode.reply.ok
    /\ \/ decode.reply.json = <<>>
       \/ parseJSON3Format(decode.reply.json[1]) = <<>>

\* C11: when the fetched payload does not parse as JSON, or parses and gives
\* the json3 decoder no segment, fetchTranscriptFromUrl returns what the
\* timed-text decoder makes of the same payload; it neither throws nor
\* reports the json3 decoder's emptiness in its place.
C11_LegacyDecoderRuns ==
    ModernDecoderEmpty =>
        /\ ~decode.result.threw
        /\ decode.result.value = parseTimedTextXML(decode.reply.xml)

C11_Witness ==
    /\ ModernDecoderEmpty
    /\ decode.reply.json # <<>>
    /\ decode.reply.json[1] # <<>>
    /\ decode.result.value = <<[text |-> "a & b"]>>

\* The primary path is over and every attempt it was allowed has failed.
PrimaryGaveUp ==
    /\ attempt = PrimaryRetries + 1
    /\ failures.primary = attempt
    /\ pc \in {"secondary", "done"}

C12_SecondaryOnlyAfterGiveUp ==
    /\ (pc = "secondary" \/ fallbackAttempt > 0) => PrimaryGaveUp
    /\ (Done /\ "method" \in DOMAIN Body
             /\ Body.method # "youtube-transcript-fallback") =>
          /\ fallbackAttempt = 0
          /\ libraryLang = <<>>

\* A step that calls the primary path is taken before any library call was
\* made, and a step that calls the library leaves the primary path alone.
C12_PrimaryStepsFirst ==
    /\ (attempt' # attempt \/ tried' # tried) =>
          (fallbackAttempt = 0 /\ fallbackAttempt' = 0)
    /\ fallbackAttempt' # fallbackAttempt =>
          (PrimaryGaveUp /\ attempt' = attempt /\ tried' = tried)

C13_TimeoutResumes ==
    (ValidRequest /\ pc = "waiting") => ENABLED NextUnanswered

\* The classified user-facing reasons: captions disabled, private or
\* restricted, unavailable, network error, age restricted, generic.
ClassifiedReasons ==
    { "[Transcript Disabled]", "[Video Private/Restricted]",
      "[Video Unavailable]", "[Network Error]", "[Age Restricted]",
      "[Transcript Error]" }

\* C14: the error string of every failure response for a valid id is one of
\* the classified reasons; the message of an upstream or internal exception
\* is never copied into the response.
C14_ErrorIsClassified ==
    (Done /\ ValidRequest /\ HasError) => Body.error \in ClassifiedReasons

\* C15: every primary attempt resolves the directory itself before it fetches
\* a track, every track fetch of an attempt uses a locator that this
\* attempt's resolution returned, and no locator is held between attempts.
C15_LocatorsOfThisAttempt ==
    /\ pc = "select" =>
          /\ attempt > 0
          /\ captionTracks # <<>>
    /\ \A k \in 1..Len(captionTracks) : captionTracks[k].baseUrl.page = attempt
    /\ \A j \in 1..Len(tried) :
          /\ tried[j].baseUrl.page = attempt
          /\ tried[j].baseUrl = captionTracks[tried[j].track].baseUrl
    /\ pc \in {"validate", "primary", "secondary"} =>
          (captionTracks = <<>> /\ tried = <<>>)

C15_Witness ==
    /\ Done
    /\ attempt = 3
    /\ failures.primary = 2
    /\ Len(tried) = 2
    /\ tried[2].yielded
    /\ tried[2].baseUrl.page = 3

\* The language of what supplied the returned segments: the caption track of
\* the fetch that yielded them, or the transcript the library downloaded.
SuppliedLanguage ==
    IF tried # <<>>
    THEN captionTracks[tried[Len(tried)].track].languageCode
    ELSE libraryLang[1]

\* C16: on every response that carries a transcript, language is the language
\* code of the caption track or transcript that supplied the segments, on
\* the primary and on the library path.
C16_LanguageOfSource ==
    (Done /\ Len(Body.segments) > 0) => Body.language = SuppliedLanguage

\* A fetch of the running request has returned at least one segment.
SomeFetchYielded == \E j \in 1..Len(tried) : tried[j].yielded

C17_YieldEndsRequest ==
    \A j \in 1..Len(tried) :
        tried[j].yielded =>
            /\ j = Len(tried)
            /\ Done
            /\ fallbackAttempt = 0
            /\ failures.primary = attempt - 1
            /\ Body.segments # <<>>
            /\ Body.method # "youtube-transcript-fallback"

\* A step issues at most one track fetch, and after a fetch that yielded no
\* step fetches a track, starts an attempt or calls the library.
C17_OneFetchPerStep ==
    /\ Len(tried') <= Len(tried) + 1
    /\ SomeFetchYielded =>
          (tried' = tried /\ attempt' = attempt
               /\ fallbackAttempt' = fallbackAttempt)

\* C17: within a primary attempt the track fetches are made one at a time,
\* and once a tier's fetch has returned at least one segment no further
\* track fetch, retry or library call is made for the request.
C17_SequentialShortCircuit ==
    [] C17_YieldEndsRequest /\ [][C17_OneFetchPerStep]_vars

C17_Witness ==
    /\ Done
    /\ attempt = 2
    /\ Len(tried) = 3
    /\ tried[3].yielded
    /\ tried[3].pos.s = 5

\* A fetch of a tier that has a following tier has failed: the selector is at
\* a block before the last and the step does not return a transcript.
TierFailed == pc = "select" /\ pos.s # 7 /\ pc' # "done"

C18_NextTierAttempted ==
    TierFailed =>
        /\ pc' = "select"
        /\ attempt' = attempt
        /\ failures' = failures
        /\ captionTracks' = captionTracks
        /\ Len(tried') = Len(tried) + 1
        /\ ~tried'[Len(tried')].yielded
        /\ pos' = ExpectedFetches[Len(tried') + 1].pos

\* C18: a fetch or decode failure (thrown error or no segment) at a tier that
\* has a following tier never ends the selection: the next tier in order is
\* attempted in the same attempt.
C18_FailureMovesOn == [][C18_NextTierAttempted]_vars

C18_Witness ==
    /\ pc = "select"
    /\ pos.s = 6
    /\ Len(tried) = 3
    /\ \A j \in 1..3 : ~tried[j].yielded
    /\ tried[3].pos.s = 5

\* C19: whenever the track list is non-empty and every tier fails, also when
\* the last-resort fetch throws, fetchTranscriptWithFallbacks fails with the
\* "all strategies failed" error and not with the error of a track fetch.
C19_FailsAsExhausted ==
    [][(pc = "select" /\ pc' \notin {"select", "done"}) =>
          primaryError' = "All transcript fetch strategies failed"]_vars

\* C20: per request fetchTranscriptWithFallbacks is called at most 3 times,
\* however the attempts fail.
C20_AtMostThreeCalls == attempt <= 3

\* The last primary attempt made has failed and retries are left.
FailedWithBudget ==
    /\ failures.primary = attempt
    /\ attempt \in 1..PrimaryRetries

C21_RetryPending ==
    FailedWithBudget =>
        /\ pc = "primary"
        /\ fallbackAttempt = 0
        /\ response = NoResponse

\* A step in which a primary attempt fails leads to another primary attempt
\* while retries are left, whatever the error; the attempt that follows is a
\* call of the primary path.
C21_FailureRetried ==
    /\ failures'.primary > failures.primary =>
          (attempt' <= PrimaryRetries => pc' = "primary")
    /\ (FailedWithBudget /\ pc' # pc) => attempt' = attempt + 1

ConfigFound ==
    /\ resolve.pc \in {"classify", "done"}
    /\ ~resolve.page.failed
    /\ resolve.page.ok
    /\ resolve.page.hasPlayerResponse
    /\ resolve.page.parses

Playability == resolve.page.playerResponse.status

NotPlayable == Playability \in {"ERROR", "UNPLAYABLE", "LOGIN_REQUIRED"}

\* C22: whenever the extracted player configuration signals that the video is
\* unplayable, in error or login-gated, the directory resolver fails, whether
\* or not the configuration lists caption tracks; it never returns a track
\* list for such a video.
C22_NotPlayableFails ==
    (ConfigFound /\ NotPlayable) => resolve.result.threw

\* The configuration declares no caption track: the list is absent or empty.
NoTracksDeclared ==
    \/ ~resolve.page.playerResponse.hasCaptionTracks
    \/ resolve.page.playerResponse.captionTracks = <<>>

\* C23: when the player configuration is found, shows no playability problem
\* and declares no caption tracks, the reason is "captions disabled", and
\* that reason is never given for a video whose configuration signals that it
\* is unavailable, private or login-gated.
C23_DisabledOnlyWhenPlayable ==
    (ConfigFound /\ resolve.pc = "done") =>
        /\ (~NotPlayable /\ NoTracksDeclared) =>
              resolve.reason = "[Transcript Disabled]"
        /\ resolve.reason = "[Transcript Disabled]" => ~NotPlayable

\* C24: within one primary attempt no caption track is fetched more than
\* once: every tier tries only a track that no earlier tier of the attempt
\* has tried.
C24_NoTrackFetchedTwice ==
    \A i, j \in 1..Len(tried) : i < j => tried[i].track # tried[j].track

BatchDone == batch.pc = "done"

\* The endpoint answered a request for the id of video k with at least one
\* segment.
ServerGaveSegments(k) ==
    \E j \in 1..Len(batch.videos) :
        /\ batch.videos[j].video_id = batch.videos[k].video_id
        /\ batch.replies[j] # <<>>
        /\ ~batch.replies[j][1].threw
        /\ Len(batch.replies[j][1].data.segments) > 0

\* C25: after fetchTranscriptsForVideos a video's transcript_raw is non-empty
\* only if the endpoint returned at least one segment for that video; the
\* endpoint's failure response (success=true, no segments, error) never puts
\* error text into transcript_raw.
C25_RawOnlyFromSegments ==
    BatchDone =>
        \A k \in 1..Len(batch.results) :
            batch.results[k].transcript_raw # "" => ServerGaveSegments(k)

C26_WithinWindow ==
    /\ Cardinality(batch.inFlight) <= batch.concurrency
    /\ batch.inFlight \subseteq (batch.i + 1)..(batch.i + batch.concurrency)
    /\ batch.inFlight # {} =>
          \A j \in 1..batch.i : batch.replies[j] # <<>>

\* Requests are issued only when none is in flight, and a step issues at most
\* `concurrency` of them.
C26_IssuedAfterSettled ==
    (batch.inFlight' \ batch.inFlight) # {} =>
        /\ batch.inFlight = {}
        /\ Cardinality(batch.inFlight') <= batch.concurrency
        /\ \A j \in 1..batch.i : batch.replies[j] # <<>>

\* C26: fetchTranscriptsForVideos never has more than `concurrency` requests
\* in flight, and it issues the requests of a batch only after every request
\* of the previous batch has settled.
C26_BoundedBatches ==
    [] C26_WithinWindow /\ [][C26_IssuedAfterSettled]_vars

C26_Witness ==
    /\ batch.pc = "await"
    /\ Len(batch.videos) = 3
    /\ batch.concurrency = 2
    /\ batch.i = 2
    /\ batch.inFlight = {3}

\* C27: fetchTranscriptsForVideos returns a list of the length and order of
\* its input, each video differing from the input video only in the three
\* transcript fields, and each video, also when ids repeat, carrying the
\* transcript fetched for it.
C27_EachVideoItsTranscript ==
    BatchDone =>
        /\ Len(batch.results) = Len(batch.videos)
        /\ \A k \in 1..Len(batch.videos) :
              /\ batch.results[k].video_id = batch.videos[k].video_id
              /\ batch.results[k].title = batch.videos[k].title
              /\ batch.results[k].transcript_raw = batch.transcripts[k][1].raw
              /\ batch.results[k].transcript_language =
                    batch.transcripts[k][1].language
              /\ batch.results[k].transcript_segments =
                    batch.transcripts[k][1].segments

\* C28: at most one search handler run is in flight at any time: isLoading is
\* true exactly while a search is running, and the results shown are those
\* of the most recently started search.
C28_OneSearchAtATime ==
    /\ Cardinality(search.running) <= 1
    /\ search.isLoading <=> search.running # {}
    /\ ~search.staleWrite

\* C29: withRetry never calls fn again after fn failed with a YouTubeAPIError
\* whose code is in 400..499 and is not 429, and rethrows that error without
\* a backoff wait; after every other failure it waits
\* min(baseDelay * 2^attempt, maxDelay) and calls fn again, for at most
\* retries + 1 calls, and then throws the last error.
ClientError(error) ==
    /\ error.kind = "YouTubeAPIError"
    /\ error.code \in 400..499
    /\ error.code # 429

C29_RetryPolicy ==
    /\ retry.calls <= retry.retries + 1
    /\ \A i \in 1..Len(retry.errors) :
          IF ClientError(retry.errors[i])
          THEN /\ i = Len(retry.errors)
               /\ retry.calls = i
               /\ Len(retry.waits) = i - 1
               /\ retry.pc = "thrown"
               /\ retry.thrown = retry.errors[i]
          ELSE IF i <= retry.retries
               THEN \/ retry.pc = "sleeping" /\ i = Len(retry.errors)
                    \/ /\ Len(retry.waits) >= i
                       /\ retry.waits[i] =
                            (IF 1000 * 2 ^ (i - 1) <= 10000
                             THEN 1000 * 2 ^ (i - 1) ELSE 10000)
                       /\ retry.calls > i \/ retry.pc = "calling"
               ELSE /\ i = retry.retries + 1
                    /\ retry.pc = "thrown"
                    /\ retry.thrown = retry.errors[i]
                    /\ Len(retry.waits) = retry.retries
    /\ retry.pc = "thrown" => retry.thrown = retry.errors[Len(retry.errors)]
    /\ retry.pc \in {"calling", "sleeping"} => retry.calls <= retry.retries

C29_Witness ==
    /\ retry.pc = "thrown"
    /\ retry.calls = retry.retries + 1
    /\ Len(retry.waits) >= 5
    /\ retry.waits[4] = 8000
    /\ retry.waits[5] = 10000
    /\ retry.errors[1] = [kind |-> "YouTubeAPIError", code |-> 429]
    /\ retry.errors[2] = [kind |-> "Error", code |-> 404]

\* C30: calculateFacelessScore returns a score in 0..100 and a confidence that
\* is "High" exactly when score >= 75, "Medium" exactly when
\* 50 <= score < 75 and "Low" exactly when score < 50; never "N/A".
C30_ScoreAndConfidence ==
    score.pc = "scored" =>
        /\ score.result.score \in 0..100
        /\ score.result.confidence = "High" <=> score.result.score >= 75
        /\ score.result.confidence = "Medium" <=>
              (50 <= score.result.score /\ score.result.score < 75)
        /\ score.result.confidence = "Low" <=> score.result.score < 50
        /\ score.result.confidence # "N/A"

\* A vlog title in the first person: 50 - 40 - 30 is clamped to 0.
C30_Witness ==
    /\ score.pc = "scored"
    /\ score.video.title = "My morning vlog"
    /\ score.video.description = ""
    /\ score.video.categoryId = "22"
    /\ score.result = [score |-> 0, confidence |-> "Low"]

=============================================================================
